---- MODULE Spec2Model ----
(***************************************************************************)
(* A model of server.py: the holdings file, the token configuration file,  *)
(* the transaction database and the HTTP handlers that read and write      *)
(* them.  One action per handler; `resp` is the response of the last       *)
(* handler that ran.                                                       *)
(*                                                                         *)
(* Amounts (units, nav) are floats in the program.  The model keeps them   *)
(* as integers counting eighths, so every product (in 64ths) and every sum *)
(* is a dyadic rational that a float holds exactly, and round(x, 2) is     *)
(* computed on that exact value as Python computes it (nearest cent, ties  *)
(* to the even cent).  Rounded amounts are integers counting cents.        *)
(***************************************************************************)
EXTENDS Integers, Sequences, FiniteSets, TLC

\* Longest holdings list a request carries.
MaxLen == 2

\* Scheme codes, unit counts (eighths) and navs (eighths) used as inputs.
Codes == {"A", "B"}
UnitVals == {1, 2}
NavVals == {1, 2}

(***************************************************************************)
(* Python values and the tokens of a serialized file share one shape:      *)
(* a record with a kind, a string and a number.                            *)
(***************************************************************************)
Tok(k, s, n) == [k |-> k, s |-> s, n |-> n]
Str(s) == Tok("str", s, 0)
Num(n) == Tok("num", "", n)
Key(s) == Tok("key", s, 0)
Null == Tok("null", "", 0)
Absent == Tok("absent", "", 0)
LB == Tok("[", "", 0)
RB == Tok("]", "", 0)
LC == Tok("{", "", 0)
RC == Tok("}", "", 0)
Indent == Tok("indent", "", 0)
Dedent == Tok("dedent", "", 0)

\* A file: whether it exists, and its content as a token sequence.
NoFile == [exists |-> FALSE, content |-> <<>>]
FileOf(content) == [exists |-> TRUE, content |-> content]

\* A Holding of the request body (pydantic model).
Holding == [scheme_code : Codes, units : UnitVals]

RECURSIVE SeqsUpTo(_, _)
SeqsUpTo(S, n) ==
    IF n = 0 THEN {<<>>}
    ELSE LET shorter == SeqsUpTo(S, n - 1)
         IN shorter \cup {Append(s, x) : s \in {t \in shorter : Len(t) = n - 1}, x \in S}

HoldingLists == SeqsUpTo(Holding, MaxLen)

\* The dict set_holdings_api builds for one Holding.
HoldingDict(h) == [scheme_code |-> Str(h.scheme_code), units |-> Num(h.units)]

HoldingDicts(holdings) == [i \in 1..Len(holdings) |-> HoldingDict(holdings[i])]

(***************************************************************************)
(* json.dump of a list of dicts with the keys scheme_code and units.       *)
(* Separators (commas, colons, blanks) are folded into the token           *)
(* boundaries.                                                             *)
(***************************************************************************)
DumpDict(d) ==
    <<LC, Key("scheme_code"), d.scheme_code, Key("units"), d.units, RC>>

RECURSIVE DumpItems(_, _)
DumpItems(data, i) ==
    IF i > Len(data) THEN <<>>
    ELSE DumpDict(data[i]) \o DumpItems(data, i + 1)

json_dump(data) == <<LB>> \o DumpItems(data, 1) \o <<RB>>

(***************************************************************************)
(* json.load of a token sequence: a list of objects whose members are      *)
(* key/value pairs with a string or number value.  A later duplicate key   *)
(* replaces the earlier one; keys other than the two are dropped from the  *)
(* modelled dict.  Anything else, including text after the closing         *)
(* bracket, raises.                                                        *)
(***************************************************************************)
EmptyDict == [scheme_code |-> Absent, units |-> Absent]
ParseFail == [ok |-> FALSE, next |-> 0, val |-> <<>>]

RECURSIVE ParseMembers(_, _, _)
ParseMembers(toks, i, obj) ==
    IF i > Len(toks) THEN ParseFail
    ELSE IF toks[i] = RC THEN [ok |-> TRUE, next |-> i + 1, val |-> obj]
    ELSE IF toks[i].k = "key" /\ i + 1 <= Len(toks) /\ toks[i + 1].k \in {"str", "num"}
         THEN ParseMembers(toks, i + 2,
                  IF toks[i].s = "scheme_code" THEN [obj EXCEPT !.scheme_code = toks[i + 1]]
                  ELSE IF toks[i].s = "units" THEN [obj EXCEPT !.units = toks[i + 1]]
                  ELSE obj)
    ELSE ParseFail

RECURSIVE ParseElements(_, _, _)
ParseElements(toks, i, acc) ==
    IF i > Len(toks) THEN ParseFail
    ELSE IF toks[i] = RB THEN [ok |-> TRUE, next |-> i + 1, val |-> acc]
    ELSE IF toks[i] = LC
         THEN LET m == ParseMembers(toks, i + 1, EmptyDict)
              IN IF m.ok THEN ParseElements(toks, m.next, Append(acc, m.val))
                 ELSE ParseFail
    ELSE ParseFail

json_load(toks) ==
    IF Len(toks) = 0 \/ toks[1] # LB THEN ParseFail
    ELSE LET r == ParseElements(toks, 2, <<>>)
         IN IF r.ok /\ r.next = Len(toks) + 1 THEN r ELSE ParseFail

\* load_holdings without its try/except: a parse error leaves the function.
load_holdings_NoExcept(file) ==
    IF file.exists
    THEN LET r == json_load(file.content)
         IN [raised |-> ~r.ok, val |-> r.val]
    ELSE [raised |-> FALSE, val |-> <<>>]

\* load_holdings: the parsed list, or [] when the file is missing or unreadable.
load_holdings(file) ==
    IF file.exists
    THEN LET r == json_load(file.content)
         IN [raised |-> FALSE, val |-> IF r.ok THEN r.val ELSE <<>>]
    ELSE [raised |-> FALSE, val |-> <<>>]

\* open(path, "w") on the file as it is: it exists and is empty afterwards.
OpenForWrite(file) == FileOf(<<>>)

\* A write at offset 0 of a file opened with "w": it replaces the first
\* Len(toks) tokens and leaves whatever lies beyond them.
WriteAtStart(file, toks) ==
    FileOf(toks \o SubSeq(file.content, Len(toks) + 1, Len(file.content)))

\* save_holdings with the file opened without truncation (mode "r+").
save_holdings_NoTruncate(file, data) ==
    WriteAtStart(FileOf(file.content), json_dump(data))

\* save_holdings: open(..., "w") truncates, json.dump writes the whole list.
save_holdings(file, data) == WriteAtStart(OpenForWrite(file), json_dump(data))

(***************************************************************************)
(* yaml.dump of the token configuration (keys sorted, one nested level)    *)
(* and yaml.safe_load back to a mapping from key paths to values.          *)
(***************************************************************************)
yaml_dump(access, refresh, uuid, device_hash) ==
    <<Key("device_hash"), device_hash,
      Key("fold_user"), Indent, Key("uuid"), uuid, Dedent,
      Key("token"), Indent, Key("access"), access, Key("refresh"), refresh, Dedent>>

YamlFail == [ok |-> FALSE, val |-> <<>>]

RECURSIVE YamlScan(_, _, _, _)
YamlScan(toks, i, parent, acc) ==
    IF i > Len(toks)
    THEN IF parent = "" THEN [ok |-> TRUE, val |-> acc] ELSE YamlFail
    ELSE IF toks[i] = Dedent
         THEN IF parent # "" THEN YamlScan(toks, i + 1, "", acc) ELSE YamlFail
    ELSE IF toks[i].k = "key" /\ i + 1 <= Len(toks)
         THEN IF toks[i + 1] = Indent
              THEN IF parent = "" THEN YamlScan(toks, i + 2, toks[i].s, acc) ELSE YamlFail
              ELSE IF toks[i + 1].k \in {"str", "null"}
                   THEN YamlScan(toks, i + 2, parent,
                            (<<parent, toks[i].s>> :> toks[i + 1]) @@ acc)
                   ELSE YamlFail
    ELSE YamlFail

\* An empty document loads as None, on which .get raises.
yaml_safe_load(toks) ==
    IF Len(toks) = 0 THEN YamlFail ELSE YamlScan(toks, 1, "", <<>>)

\* save_unfold_config
save_unfold_config(file, access, refresh, uuid, device_hash) ==
    WriteAtStart(OpenForWrite(file), yaml_dump(access, refresh, uuid, device_hash))

\* get_unfold_token: config.get('token', {}).get('access'), None on any failure.
get_unfold_token(file) ==
    IF file.exists
    THEN LET c == yaml_safe_load(file.content)
         IN IF c.ok /\ <<"token", "access">> \in DOMAIN c.val
            THEN c.val[<<"token", "access">>]
            ELSE Null
    ELSE Null

\* Python truthiness of a token value of the verify response.
Truthy(v) == v.k = "str" /\ v.s # ""

\* `if access or refresh` in place of `and`.
VerifyAccepts_Either(access, refresh) == Truthy(access) \/ Truthy(refresh)

\* fold_verify line 122: `if access and refresh`.
VerifyAccepts(access, refresh) == Truthy(access) /\ Truthy(refresh)

(***************************************************************************)
(* round(x, 2) of an amount x counted in 64ths, in cents: the nearest      *)
(* cent of the exact value, a tie going to the even cent.                  *)
(***************************************************************************)
\* Truncation to the cent below in place of rounding.
Round2_Floor(x) == (100 * x) \div 64

Round2(x) ==
    LET q == (100 * x) \div 64
        r == (100 * x) % 64
    IN IF r < 32 THEN q
       ELSE IF r > 32 THEN q + 1
       ELSE IF q % 2 = 0 THEN q ELSE q + 1

(***************************************************************************)
(* One price lookup of get_portfolio.  kind "neterr": requests.get raised; *)
(* "malformed": resp.json(), the nav or the meta name raised; "nopoints":  *)
(* the `if data and "data" in data and len(...) > 0` test was false;       *)
(* "ok": nav and scheme_name were read.                                    *)
(***************************************************************************)
LookupFailed(kind) == [kind |-> kind, nav |-> 0, name |-> ""]
LookupOk(nav) == [kind |-> "ok", nav |-> nav, name |-> "Fund"]
Outcomes == {LookupFailed(k) : k \in {"neterr", "malformed", "nopoints"}}
                \cup {LookupOk(n) : n \in NavVals}

\* The emptiness test dropped: a feed answer without price points is priced.
LookupSucceeded_NoPointsTest(lk) == lk.kind \in {"ok", "nopoints"}

\* Lines 213-217: the entry is priced iff nothing raised and the test was true.
LookupSucceeded(lk) == lk.kind = "ok"

\* `total_value = value` in place of `+=`.
Accumulate_Overwrite(total, value) == value

\* Line 227: total_value += value, the unrounded product.
Accumulate(total, value) == total + value

\* Lines 220-226: the appended line item.
PricedHolding(code, units, lk) ==
    [scheme_code |-> code, scheme_name |-> lk.name, units |-> units,
     nav |-> lk.nav, current_value |-> Round2(units * lk.nav)]

PortfolioRaised == [raised |-> TRUE, portfolio |-> <<>>, total_value |-> 0]

\* The loop of get_portfolio over the loaded holdings.  holding["scheme_code"]
\* and float(holding["units"]) stand outside the try block: a missing key or
\* a non-numeric string raises out of the handler.
RECURSIVE PortfolioLoop(_, _, _, _, _)
PortfolioLoop(holdings, lookups, i, portfolio, total) ==
    IF i > Len(holdings)
    THEN [raised |-> FALSE, portfolio |-> portfolio, total_value |-> Round2(total)]
    ELSE LET h == holdings[i]
         IN IF h.scheme_code = Absent \/ h.units.k # "num"
            THEN PortfolioRaised
            ELSE IF LookupSucceeded(lookups[i])
                 THEN PortfolioLoop(holdings, lookups, i + 1,
                          Append(portfolio,
                                 PricedHolding(h.scheme_code, h.units.n, lookups[i])),
                          Accumulate(total, h.units.n * lookups[i].nav))
                 ELSE PortfolioLoop(holdings, lookups, i + 1, portfolio, total)

\* The inner `if not os.path.exists(DB_PATH)` dropped.
AutoSyncNeeded_OuterOnly(dbMissing, token) == dbMissing \/ token # Null

\* get_transactions lines 150-153: whether the synchronization tool is run.
AutoSyncNeeded(dbMissing, token) ==
    (dbMissing \/ token # Null) /\ dbMissing

(***************************************************************************)
(* One run of the synchronization tool (subprocess.run, check=True).       *)
(* exit "ok": status 0, the database is populated; "nonzero":              *)
(* CalledProcessError, the tool may have created an empty database file    *)
(* before it failed; "notfound": the binary could not be started.          *)
(***************************************************************************)
ToolRuns(db) ==
    {[exit |-> "ok", db |-> "ok"], [exit |-> "nonzero", db |-> db],
     [exit |-> "notfound", db |-> db]}
        \cup (IF db = "missing" THEN {[exit |-> "nonzero", db |-> "notable"]} ELSE {})

AuthHint == "Failed to sync. Ensure you are logged in."
ExcText == "str(e)"

\* subprocess.run without check=True: a non-zero exit is not raised.
SyncResponse_Unchecked(exit) ==
    IF exit \in {"ok", "nonzero"} THEN [status |-> 200, detail |-> "success"]
    ELSE [status |-> 500, detail |-> ExcText]

\* sync_transactions lines 192-198: the response for each way the run ends.
SyncResponse(exit) ==
    IF exit = "ok" THEN [status |-> 200, detail |-> "success"]
    ELSE IF exit = "nonzero" THEN [status |-> 500, detail |-> AuthHint]
    ELSE [status |-> 500, detail |-> ExcText]

(***************************************************************************)
(* State.                                                                  *)
(***************************************************************************)
VARIABLES
    holdingsFile,   \* HOLDINGS_FILE on disk
    configFile,     \* UNFOLD_CONFIG on disk
    db,             \* DB_PATH: "missing", "notable" (no transactions table), "ok"
    resp,           \* the response of the last handler
    lastSaved,      \* history: the list of the most recent POST /api/holdings
    storedGood,     \* history: save_unfold_config ran with non-empty tokens
    pc,             \* concurrent savers: "idle", "start", "opened", "done"
    arg             \* concurrent savers: the list each one was given

vars == <<holdingsFile, configFile, db, resp, lastSaved, storedGood, pc, arg>>

Writers == {1, 2}

Resp0 ==
    [op |-> "none", status |-> 0, detail |-> "", holdings |-> <<>>,
     portfolio |-> <<>>, total_value |-> 0, lookups |-> <<>>, syncRuns |-> 0,
     dbMissing |-> FALSE, tool |-> "none", logged_in |-> FALSE, txn |-> "none"]

\* Values the verify response of the identity service may carry.
AccessVals == {Null, Str(""), Str("a1")}
RefreshVals == {Null, Str(""), Str("r1")}
UuidVals == {Null, Str("u1")}
HashVals == {Str("h1")}

\* Contents the holdings file may have before the server first writes it.
GoodA == <<LC, Key("scheme_code"), Str("A"), Key("units"), Num(1), RC>>
GoodB == <<LC, Key("scheme_code"), Str("B"), Key("units"), Num(2), RC>>
InitHoldingsFiles ==
    {NoFile,
     FileOf(<<>>),
     FileOf(<<LB, LC>>),
     FileOf(<<LB, RB>>),
     FileOf(<<LB>> \o GoodA \o GoodB \o <<RB>>),
     FileOf(<<LB, LC, Key("scheme_code"), Str("A"), RC>> \o GoodB \o <<RB>>),
     FileOf(<<LB, LC, Key("units"), Num(1), RC, RB>>),
     FileOf(<<LB, LC, Key("scheme_code"), Str("A"), Key("units"), Str("x"), RC>>
                \o GoodB \o <<RB>>)}

Init ==
    /\ holdingsFile \in InitHoldingsFiles
    /\ configFile = NoFile
    /\ db = "missing"
    /\ resp = Resp0
    /\ lastSaved = [any |-> FALSE, list |-> <<>>]
    /\ storedGood = FALSE
    /\ pc = [w \in Writers |-> "idle"]
    /\ arg = [w \in Writers |-> <<>>]

(***************************************************************************)
(* Handlers.                                                               *)
(***************************************************************************)

\* POST /api/fold/login: no state of the server changes.
FoldLogin ==
    /\ \E sent \in BOOLEAN :
         resp' = IF sent
                 THEN [Resp0 EXCEPT !.op = "login", !.status = 200, !.detail = "otp_sent"]
                 ELSE [Resp0 EXCEPT !.op = "login", !.status = 400, !.detail = ExcText]
    /\ UNCHANGED <<holdingsFile, configFile, db, lastSaved, storedGood, pc, arg>>

\* POST /api/fold/verify
FoldVerify ==
    \E http \in {"error", "ok"}, access \in AccessVals, refresh \in RefreshVals,
       uuid \in UuidVals, device_hash \in HashVals :
        /\ IF http = "ok" /\ VerifyAccepts(access, refresh)
           THEN /\ configFile' = save_unfold_config(configFile, access, refresh, uuid, device_hash)
                /\ storedGood' = (storedGood \/ (Truthy(access) /\ Truthy(refresh)))
                /\ resp' = [Resp0 EXCEPT !.op = "verify", !.status = 200,
                                         !.detail = "success"]
           ELSE /\ UNCHANGED <<configFile, storedGood>>
                /\ resp' = [Resp0 EXCEPT !.op = "verify", !.status = 400,
                                         !.detail = "Verification failed"]
        /\ UNCHANGED <<holdingsFile, db, lastSaved, pc, arg>>

\* GET /api/fold/status
FoldStatus ==
    /\ resp' = [Resp0 EXCEPT !.op = "status", !.status = 200,
                             !.logged_in = (get_unfold_token(configFile) # Null)]
    /\ UNCHANGED <<holdingsFile, configFile, db, lastSaved, storedGood, pc, arg>>

\* GET /api/holdings
GetHoldings ==
    /\ \E r \in {load_holdings(holdingsFile)} :
          resp' = [Resp0 EXCEPT !.op = "get_holdings",
                                !.status = IF r.raised THEN 500 ELSE 200,
                                !.holdings = r.val]
    /\ UNCHANGED <<holdingsFile, configFile, db, lastSaved, storedGood, pc, arg>>

\* POST /api/holdings with the body `holdings`
set_holdings_api(holdings) ==
    /\ holdingsFile' = save_holdings(holdingsFile, HoldingDicts(holdings))
    /\ lastSaved' = [any |-> TRUE, list |-> holdings]
    /\ resp' = [Resp0 EXCEPT !.op = "set_holdings", !.status = 200,
                             !.detail = "updated"]
    /\ UNCHANGED <<configFile, db, storedGood, pc, arg>>

\* Every list of at most MaxLen holdings as the body.
SetHoldings == \E holdings \in HoldingLists : set_holdings_api(holdings)

\* A few lists as the body, for the specification of all the handlers.
SampleLists ==
    {<<>>,
     <<[scheme_code |-> "A", units |-> 1]>>,
     <<[scheme_code |-> "A", units |-> 2], [scheme_code |-> "B", units |-> 1]>>}

SetSampleHoldings == \E holdings \in SampleLists : set_holdings_api(holdings)

\* GET /api/transactions
GetTransactions ==
    LET dbMissing == db = "missing"
        run == AutoSyncNeeded(dbMissing, get_unfold_token(configFile))
    IN \E t \in (IF run THEN ToolRuns(db) ELSE {[exit |-> "none", db |-> db]}),
          readOk \in BOOLEAN :
        /\ db' = t.db
        /\ resp' = [Resp0 EXCEPT !.op = "transactions", !.status = 200,
                                 !.syncRuns = IF run THEN 1 ELSE 0,
                                 !.dbMissing = dbMissing,
                                 !.tool = t.exit,
                                 !.txn = IF t.db = "ok" /\ readOk THEN "rows"
                                         ELSE "empty"]
        /\ UNCHANGED <<holdingsFile, configFile, lastSaved, storedGood, pc, arg>>

\* POST /api/sync
SyncTransactions ==
    \E t \in ToolRuns(db) :
        /\ db' = t.db
        /\ resp' = [Resp0 EXCEPT !.op = "sync", !.status = SyncResponse(t.exit).status,
                                 !.detail = SyncResponse(t.exit).detail,
                                 !.tool = t.exit]
        /\ UNCHANGED <<holdingsFile, configFile, lastSaved, storedGood, pc, arg>>

\* GET /api/portfolio
\* (ld and v are bound by \E over a singleton so that each is computed once.)
GetPortfolio ==
    \E ld \in {load_holdings(holdingsFile)} :
      \E lookups \in [1..Len(ld.val) -> Outcomes] :
        \E v \in {PortfolioLoop(ld.val, lookups, 1, <<>>, 0)} :
          LET raised == ld.raised \/ v.raised
          IN /\ resp' = [Resp0 EXCEPT !.op = "portfolio",
                                      !.status = IF raised THEN 500 ELSE 200,
                                      !.portfolio = v.portfolio,
                                      !.total_value = v.total_value,
                                      !.lookups = IF raised THEN <<>> ELSE lookups]
             /\ UNCHANGED <<holdingsFile, configFile, db, lastSaved, storedGood, pc, arg>>

\* All the handlers, one request at a time.
Next ==
    \/ FoldLogin
    \/ FoldVerify
    \/ FoldStatus
    \/ GetHoldings
    \/ SetSampleHoldings
    \/ GetTransactions
    \/ SyncTransactions
    \/ GetPortfolio

Spec == Init /\ [][Next]_vars

\* The holdings store and the valuation alone, over every list of holdings.
NextHoldings ==
    \/ GetHoldings
    \/ SetHoldings
    \/ GetPortfolio

SpecHoldings == Init /\ [][NextHoldings]_vars

(***************************************************************************)
(* Two POST /api/holdings requests served concurrently: the open (which    *)
(* truncates) and the write of each save_holdings are separate steps, and  *)
(* each writer has its own file offset.  GET /api/holdings runs once both  *)
(* have returned.                                                          *)
(***************************************************************************)
InitRace ==
    /\ holdingsFile = NoFile
    /\ configFile = NoFile
    /\ db = "missing"
    /\ resp = Resp0
    /\ lastSaved = [any |-> FALSE, list |-> <<>>]
    /\ storedGood = FALSE
    /\ pc = [w \in Writers |-> "start"]
    /\ arg \in [Writers -> HoldingLists]

SaveOpen(w) ==
    /\ pc[w] = "start"
    /\ holdingsFile' = OpenForWrite(holdingsFile)
    /\ pc' = [pc EXCEPT ![w] = "opened"]
    /\ UNCHANGED <<configFile, db, resp, lastSaved, storedGood, arg>>

SaveWrite(w) ==
    /\ pc[w] = "opened"
    /\ holdingsFile' = WriteAtStart(holdingsFile, json_dump(HoldingDicts(arg[w])))
    /\ lastSaved' = [any |-> TRUE, list |-> arg[w]]
    /\ pc' = [pc EXCEPT ![w] = "done"]
    /\ UNCHANGED <<configFile, db, resp, storedGood, arg>>

LoadAfterSaves ==
    /\ \A w \in Writers : pc[w] = "done"
    /\ GetHoldings

NextRace ==
    \/ \E w \in Writers : SaveOpen(w)
    \/ \E w \in Writers : SaveWrite(w)
    \/ LoadAfterSaves

SpecRace == InitRace /\ [][NextRace]_vars

(***************************************************************************)
(* Properties.                                                             *)
(***************************************************************************)

\* The list the holdings file holds, read independently of load_holdings.
StoredList ==
    IF holdingsFile.exists /\ json_load(holdingsFile.content).ok
    THEN json_load(holdingsFile.content).val
    ELSE <<>>

\* Every entry has a string scheme_code and a numeric units.
WellFormed(hs) ==
    \A i \in 1..Len(hs) : hs[i].scheme_code.k = "str" /\ hs[i].units.k = "num"

\* The positions whose lookup succeeded, and the j-th of them in order.
OkIdx(lookups) == {i \in 1..Len(lookups) : lookups[i].kind = "ok"}
NthOk(lookups, j) ==
    CHOOSE i \in OkIdx(lookups) : Cardinality({k \in OkIdx(lookups) : k < i}) = j - 1

\* c cents is x 64ths rounded to the cent: nearest, a tie to the even cent.
IsRounded(c, x) ==
    LET d == 100 * x - 64 * c
    IN /\ -32 <= d /\ d <= 32
       /\ (d = 32 \/ d = -32) => c % 2 = 0

RECURSIVE SumOk(_, _, _)
SumOk(hs, lookups, i) ==
    IF i > Len(hs) THEN 0
    ELSE (IF lookups[i].kind = "ok" THEN hs[i].units.n * lookups[i].nav ELSE 0)
             + SumOk(hs, lookups, i + 1)

RECURSIVE SumValues(_, _)
SumValues(portfolio, i) ==
    IF i > Len(portfolio) THEN 0
    ELSE portfolio[i].current_value + SumValues(portfolio, i + 1)

RECURSIVE SumProducts(_, _)
SumProducts(portfolio, i) ==
    IF i > Len(portfolio) THEN 0
    ELSE portfolio[i].units * portfolio[i].nav + SumProducts(portfolio, i + 1)

Abs(x) == IF x < 0 THEN -x ELSE x

\* C1: for a stored list of well-formed holdings and any outcomes of the
\* lookups, get_portfolio answers with exactly the holdings whose lookup
\* succeeded, in stored order, one line item per stored entry (duplicates
\* kept apart), each with its own code and units and the nav returned; a
\* failed holding is not listed at all.
C1_PortfolioIsSucceededSubsequence ==
    (resp.op = "portfolio" /\ WellFormed(StoredList)) =>
        /\ resp.status = 200
        /\ Len(resp.lookups) = Len(StoredList)
        /\ Len(resp.portfolio) = Cardinality(OkIdx(resp.lookups))
        /\ \A j \in 1..Len(resp.portfolio) :
             LET i == NthOk(resp.lookups, j)
             IN /\ resp.portfolio[j].scheme_code = StoredList[i].scheme_code
                /\ resp.portfolio[j].units = StoredList[i].units.n
                /\ resp.portfolio[j].nav = resp.lookups[i].nav
                /\ resp.portfolio[j].scheme_name = resp.lookups[i].name

\* C1 witness: two stored entries with the same code, the first lookup
\* failed and the second succeeded, and one line item came back.
C1_Witness ==
    /\ resp.op = "portfolio" /\ resp.status = 200
    /\ Len(StoredList) = 2 /\ WellFormed(StoredList)
    /\ StoredList[1].scheme_code = StoredList[2].scheme_code
    /\ resp.lookups[1].kind = "neterr" /\ resp.lookups[2].kind = "ok"
    /\ Len(resp.portfolio) = 1

\* C2: total_value is the sum of the unrounded units x nav of the holdings
\* whose lookup succeeded, rounded once to the cent; each current_value is
\* that holding's own units x nav rounded to the cent; with no succeeded
\* holding the portfolio is empty and total_value is 0.
C2_TotalIsRoundedSumOfProducts ==
    (resp.op = "portfolio" /\ WellFormed(StoredList)) =>
        /\ IsRounded(resp.total_value, SumOk(StoredList, resp.lookups, 1))
        /\ \A j \in 1..Len(resp.portfolio) :
             IsRounded(resp.portfolio[j].current_value,
                       resp.portfolio[j].units * resp.portfolio[j].nav)
        /\ OkIdx(resp.lookups) = {} => (resp.portfolio = <<>> /\ resp.total_value = 0)

\* C2 witness: two priced holdings whose products sum to a tie (0.125),
\* which rounds to the even cent 0.12.
C2_Witness ==
    /\ resp.op = "portfolio" /\ Len(resp.portfolio) = 2
    /\ SumProducts(resp.portfolio, 1) = 8
    /\ resp.total_value = 12

\* C3 as stated: total_value equals the sum of the listed current_value
\* fields.
C3_TotalIsSumOfListedValues ==
    (resp.op = "portfolio" /\ resp.status = 200) =>
        resp.total_value = SumValues(resp.portfolio, 1)

\* C3 amended: total_value is the sum of the unrounded units x nav of the
\* listed entries rounded once to the cent; it equals the sum of the listed
\* current_value fields when at most one entry is listed and otherwise
\* differs from it by at most half a cent per entry plus half a cent.
C3_TotalIsRoundedSumOfListed ==
    (resp.op = "portfolio" /\ resp.status = 200) =>
        /\ IsRounded(resp.total_value, SumProducts(resp.portfolio, 1))
        /\ Len(resp.portfolio) <= 1 => resp.total_value = SumValues(resp.portfolio, 1)
        /\ 2 * Abs(resp.total_value - SumValues(resp.portfolio, 1))
               <= Len(resp.portfolio) + 1

\* C3 witness: two listed entries whose rounded values add up to more than
\* the total.
C3_Witness ==
    /\ resp.op = "portfolio" /\ resp.status = 200
    /\ Len(resp.portfolio) = 2
    /\ resp.total_value # SumValues(resp.portfolio, 1)

\* The dicts a load returns for a list given to POST /api/holdings.
ExpectedDicts(list) ==
    [i \in 1..Len(list) |->
        [scheme_code |-> Str(list[i].scheme_code), units |-> Num(list[i].units)]]

\* C4: once POST /api/holdings has run, GET /api/holdings answers with
\* exactly the list of the most recent POST, element for element in order,
\* whatever the file held before.
C4_LoadReturnsLastSaved ==
    (resp.op = "get_holdings" /\ lastSaved.any) =>
        /\ resp.status = 200
        /\ resp.holdings = ExpectedDicts(lastSaved.list)

\* C4 witness: a load after a save of two entries with the same code.
C4_Witness ==
    /\ resp.op = "get_holdings" /\ lastSaved.any
    /\ Len(lastSaved.list) = 2
    /\ lastSaved.list[1].scheme_code = lastSaved.list[2].scheme_code
    /\ Len(resp.holdings) = 2

\* C5: starting with no token record, GET /api/fold/status answers
\* logged_in exactly when some verification has stored non-empty access and
\* refresh tokens, whatever other requests ran before or after; and a
\* verification that fails leaves the token file as it was.
C5_StatusTracksStoredTokens ==
    /\ [](resp.op = "status" => (resp.logged_in <=> storedGood))
    /\ [][(resp'.op = "verify" /\ resp'.status # 200) => configFile' = configFile]_vars

\* C5 witness: a status request answered logged_in with a record whose uuid
\* is null.
C5_Witness ==
    /\ resp.op = "status" /\ resp.logged_in /\ storedGood
    /\ configFile.exists
    /\ yaml_safe_load(configFile.content).val[<<"fold_user", "uuid">>] = Null

\* C6: one GET /api/transactions runs the synchronization tool once when
\* the database was missing at its start and not at all when it existed,
\* token or no token; it never raises whatever the tool did, and it answers
\* with the empty list when the database is still missing afterwards.
C6_OneSyncIffDbMissing ==
    resp.op = "transactions" =>
        /\ resp.syncRuns = (IF resp.dbMissing THEN 1 ELSE 0)
        /\ (resp.tool # "none") <=> resp.dbMissing
        /\ resp.status = 200
        /\ db = "missing" => resp.txn = "empty"

\* C6 witness: the database was missing, the one attempt failed, the
\* database is still missing, and the empty list came back.
C6_Witness ==
    /\ resp.op = "transactions" /\ resp.dbMissing
    /\ resp.syncRuns = 1 /\ resp.tool = "notfound"
    /\ db = "missing" /\ resp.txn = "empty" /\ resp.status = 200

\* C6 second case: the database exists, a token is stored, no run.
C6_WitnessTokenNoRun ==
    /\ resp.op = "transactions" /\ ~resp.dbMissing
    /\ get_unfold_token(configFile) # Null
    /\ resp.syncRuns = 0

\* C7 as stated: POST /api/sync succeeds only when the tool exits with
\* success, and every failure (non-zero exit, tool not found) is answered
\* with the error that tells the user to log in.
C7_EveryFailureHintsAtLogin ==
    resp.op = "sync" =>
        /\ (resp.status = 200) <=> (resp.tool = "ok")
        /\ resp.tool # "ok" => (resp.status = 500 /\ resp.detail = AuthHint)

\* C7 amended: POST /api/sync succeeds only when the tool exits with
\* success; a non-zero exit is answered with status 500 and the hint to log
\* in; a tool that cannot be started is answered with status 500 and the
\* text of the exception, without that hint; the run inside
\* GET /api/transactions never turns into an error response.
C7_SyncFailureReported ==
    /\ resp.op = "sync" =>
        /\ (resp.status = 200) <=> (resp.tool = "ok")
        /\ resp.tool = "nonzero" => (resp.status = 500 /\ resp.detail = AuthHint)
        /\ resp.tool = "notfound" => (resp.status = 500 /\ resp.detail = ExcText)
    /\ resp.op = "transactions" => resp.status = 200

\* C7 witness: the tool exited non-zero and the hint to log in came back.
C7_Witness ==
    resp.op = "sync" /\ resp.tool = "nonzero" /\ resp.status = 500
        /\ resp.detail = AuthHint

\* C8: GET /api/holdings on a missing or unparseable holdings file answers
\* with the empty list, does not raise, and leaves the file as it was.
C8_LoadFailsOpen ==
    [][(resp'.op = "get_holdings"
          /\ (~holdingsFile.exists \/ ~json_load(holdingsFile.content).ok))
       => (resp'.status = 200 /\ resp'.holdings = <<>>
             /\ holdingsFile' = holdingsFile)]_vars

\* C8 witness: a load of a file that exists and does not parse.
C8_Witness ==
    /\ resp.op = "get_holdings" /\ resp.status = 200 /\ resp.holdings = <<>>
    /\ holdingsFile.exists /\ ~json_load(holdingsFile.content).ok

\* C9 as stated: get_portfolio never raises, whatever the holdings file
\* holds and whatever the lookups do.
C9_PortfolioNeverRaises ==
    resp.op = "portfolio" => resp.status = 200

\* C10 as stated: after two concurrent saves have both returned, a load
\* returns the list of one of them.
C10_LastWriterWins ==
    resp.op = "get_holdings" =>
        resp.holdings \in {ExpectedDicts(arg[w]) : w \in Writers}

====
